---------------------------- MODULE Spec2Model ----------------------------
(***************************************************************************)
(* Model of crosshair.py: a PyQt5 overlay that shows a frameless,          *)
(* always-on-top, transparent window of CROSSHAIR_SIZE x CROSSHAIR_SIZE    *)
(* pixels at the centre of the primary screen and paints two segments in   *)
(* it.  The state is the process (its position in the script and in main,  *)
(* its SIGINT disposition, its exit status) and the one window (flags,     *)
(* pen, geometry, size constraints, what the last repaint drew).           *)
(*                                                                         *)
(* The configuration (size, thickness), the command line and the primary   *)
(* screen are inputs: they are chosen in Init and never change.            *)
(***************************************************************************)
EXTENDS Integers, Sequences, FiniteSets

\* ------------------------------------------------------------------ bounds
\* Configured sizes 1..MaxSize are explored next to the shipped one.
MaxSize == 3
\* Configured pen thicknesses 1..MaxThickness.
MaxThickness == 2
\* Display widths and heights 1..MaxDisplay are explored next to 1920x1080.
MaxDisplay == 4
\* Display origins -MaxOrigin..MaxOrigin on both axes.
MaxOrigin == 1
\* paintEvent is dispatched at most MaxPaints times in a run.
MaxPaints == 2

\* --------------------------------------------------------------- constants
\* CROSSHAIR_SIZE and CROSSHAIR_THICKNESS as shipped.
ShippedSize == 6
ShippedThickness == 2
CROSSHAIR_COLOR == <<255, 0, 0>>

\* Qt's default size constraints of a new widget: minimum 0, maximum
\* QWIDGETSIZE_MAX.
QWIDGETSIZE_MAX == (2 ^ 24) - 1

Sizes == (1 .. MaxSize) \cup {ShippedSize}
Thicknesses == (1 .. MaxThickness) \cup {ShippedThickness}
Origins == (0 - MaxOrigin) .. MaxOrigin
Extents == 1 .. MaxDisplay

\* A geometry is <<x, y, width, height>>; primaryScreen() may return None.
NoScreen == <<>>
FullHD == <<0, 0, 1920, 1080>>
Geometries ==
    {<<ox, oy, dw, dh>> : ox \in Origins, oy \in Origins,
                           dw \in Extents, dh \in Extents} \cup {FullHD}
Screens == Geometries \cup {NoScreen}

\* Command lines handed to main (arguments without the program name).
ArgLists == {<<>>, <<"-x">>}

VARIABLES
    CROSSHAIR_SIZE,       \* configured window size (square)
    CROSSHAIR_THICKNESS,  \* configured pen width
    argv,                 \* sys.argv[1:]
    primaryScreen,        \* what QApplication.primaryScreen() returns
    pc,                   \* position of the process
    sigint,               \* SIGINT disposition: "python" or "SIG_DFL"
    pendingSigint,        \* an interrupt was delivered and nothing acted on it
    qt_argv,              \* argument list given to QApplication
    appAttrs,             \* application attributes set before QApplication
    app,                  \* the QApplication object exists
    windows,              \* number of CrosshairWindow objects constructed
    winAttrs,             \* widget attributes set on the window
    winFlags,             \* window flags set on the window
    pen,                  \* self._pen: NoPen or [color, width]
    penAllocs,            \* number of QPen objects created
    winPos,               \* <<>> (never set by the program) or <<x, y>>
    winSize,              \* <<>> (no window yet) or <<width, height>>
    winMin,               \* minimum size constraint
    winMax,               \* maximum size constraint
    visible,              \* the window is shown
    locals,               \* paintEvent's locals while a repaint is running
    painterPen,           \* pen of the QPainter of the running/last repaint
    frame,                \* segments drawn by the last completed repaint
    prevFrame,            \* segments drawn by the completed repaint before it
    paints,               \* number of paintEvent dispatches
    execRet,              \* return value of app.exec_(), NoValue until it returns
    exitStatus            \* process exit status, NoValue until the process exits

vars == <<CROSSHAIR_SIZE, CROSSHAIR_THICKNESS, argv, primaryScreen, pc, sigint,
          pendingSigint, qt_argv, appAttrs, app, windows, winAttrs, winFlags,
          pen, penAllocs, winPos, winSize, winMin, winMax, visible, locals,
          painterPen, frame, prevFrame, paints, execRet, exitStatus>>

config == <<CROSSHAIR_SIZE, CROSSHAIR_THICKNESS, argv, primaryScreen>>
windowVars == <<windows, winAttrs, winFlags, pen, penAllocs, winPos, winSize,
                winMin, winMax>>
paintVars == <<locals, painterPen, frame, prevFrame, paints>>

\* ----------------------------------------------------------------- helpers
\* Python's // : floor division (rounds towards minus infinity).
FloorDiv(a, b) ==
    IF a >= 0 THEN a \div b ELSE 0 - (((0 - a) + (b - 1)) \div b)

Clamp(v, lo, hi) == IF v < lo THEN lo ELSE IF v > hi THEN hi ELSE v

\* QWidget keeps its size within the minimum and maximum size constraints.
Constrain(sz, mn, mx) ==
    <<Clamp(sz[1], mn[1], mx[1]), Clamp(sz[2], mn[2], mx[2])>>


NoPen == [color |-> <<>>, width |-> 0]
NoValue == 0 - 1

\* ------------------------------------------------------------ Qt widget API
\* A widget's geometry state: [pos, size, min, max].
\* QMainWindow(): no position set by the program, default size constraints.
NewWidget ==
    [pos |-> <<>>, size |-> <<640, 480>>,
     min |-> <<0, 0>>, max |-> <<QWIDGETSIZE_MAX, QWIDGETSIZE_MAX>>]

\* QWidget.setGeometry(x, y, w, h): moves, and resizes within the constraints.
setGeometry(w, x, y, width, height) ==
    [w EXCEPT !.pos = <<x, y>>,
              !.size = Constrain(<<width, height>>, w.min, w.max)]

\* QWidget.setFixedSize(w, h): minimum = maximum = size = (w, h).
setFixedSize(w, width, height) ==
    [w EXCEPT !.min = <<width, height>>,
              !.max = <<width, height>>,
              !.size = <<width, height>>]

\* ------------------------------------------------- CrosshairWindow methods
\* Division that rounds towards zero, as C's / does.
TruncDiv(a, b) == IF a >= 0 THEN a \div b ELSE 0 - ((0 - a) \div b)

\* Variant: the halving truncates towards zero.
CenteredPositionTrunc(geometry, width, height) ==
    <<geometry[1] + TruncDiv(geometry[3] - width, 2),
      geometry[2] + TruncDiv(geometry[4] - height, 2)>>

\* Variant: the halving rounds half up (explicit rounding).
CenteredPositionRounded(geometry, width, height) ==
    <<geometry[1] + FloorDiv((geometry[3] - width) + 1, 2),
      geometry[2] + FloorDiv((geometry[4] - height) + 1, 2)>>

\* Variant: the display's origin is left out.
CenteredPositionNoOrigin(geometry, width, height) ==
    <<FloorDiv(geometry[3] - width, 2), FloorDiv(geometry[4] - height, 2)>>

\* x and y of _center_on_primary_screen, from the screen's geometry.
CenteredPosition(geometry, width, height) ==
    <<geometry[1] + FloorDiv(geometry[3] - width, 2),
      geometry[2] + FloorDiv(geometry[4] - height, 2)>>

\* Variant: the size is not locked after setGeometry.
center_on_primary_screen_unlocked(w, scr, width, height) ==
    IF scr = NoScreen
    THEN setFixedSize(w, width, height)
    ELSE LET p == CenteredPosition(scr, width, height)
         IN  setGeometry(w, p[1], p[2], width, height)

\* Variant: the fallback returns without fixing the size.
center_on_primary_screen_bare_fallback(w, scr, width, height) ==
    IF scr = NoScreen
    THEN w
    ELSE LET p == CenteredPosition(scr, width, height)
         IN  setFixedSize(setGeometry(w, p[1], p[2], width, height),
                          width, height)

\* _center_on_primary_screen(width, height) on widget w with primary screen
\* scr: the widget afterwards.
center_on_primary_screen(w, scr, width, height) ==
    IF scr = NoScreen
    THEN setFixedSize(w, width, height)
    ELSE LET p == CenteredPosition(scr, width, height)
         IN  setFixedSize(setGeometry(w, p[1], p[2], width, height),
                          width, height)

\* Variant: the halves come from the shipped constant, not from the window.
PaintLocalsFromConstant(width, height) ==
    <<width, height, FloorDiv(ShippedSize, 2), FloorDiv(ShippedSize, 2)>>

\* Variant: the halves are rounded up.
PaintLocalsRoundedUp(width, height) ==
    <<width, height, FloorDiv(width + 1, 2), FloorDiv(height + 1, 2)>>

\* paintEvent's locals <<width, height, half_w, half_h>>.
PaintLocals(width, height) ==
    <<width, height, FloorDiv(width, 2), FloorDiv(height, 2)>>

\* The two drawLine calls of paintEvent, in order; a segment is
\* <<x1, y1, x2, y2>>.
DrawLines(l) ==
    << <<l[3], 0, l[3], l[2]>>,
       <<0, l[4], l[1], l[4]>> >>

\* ----------------------------------------------------------------- Init
Init ==
    /\ CROSSHAIR_SIZE \in Sizes
    /\ CROSSHAIR_THICKNESS \in Thicknesses
    /\ argv \in ArgLists
    /\ primaryScreen \in Screens
    /\ pc = "start"
    /\ sigint = "python"
    /\ pendingSigint = FALSE
    /\ qt_argv = <<>>
    /\ appAttrs = {}
    /\ app = FALSE
    /\ windows = 0
    /\ winAttrs = {}
    /\ winFlags = {}
    /\ pen = NoPen
    /\ penAllocs = 0
    /\ winPos = <<>>
    /\ winSize = <<>>
    /\ winMin = <<>>
    /\ winMax = <<>>
    /\ visible = FALSE
    /\ locals = <<>>
    /\ painterPen = NoPen
    /\ frame = <<>>
    /\ prevFrame = <<>>
    /\ paints = 0
    /\ execRet = NoValue
    /\ exitStatus = NoValue

\* -------------------------------------------------------------- actions
\* Variant: the module does not touch the SIGINT disposition.
KeepPythonSigint ==
    /\ pc = "start"
    /\ pc' = "loaded"
    /\ UNCHANGED <<config, sigint, pendingSigint, qt_argv, appAttrs, app,
                   windowVars, visible, paintVars, execRet, exitStatus>>

\* Module level: signal.signal(signal.SIGINT, signal.SIG_DFL).
InstallSigintDefault ==
    /\ pc = "start"
    /\ sigint' = "SIG_DFL"
    /\ pc' = "loaded"
    /\ UNCHANGED <<config, pendingSigint, qt_argv, appAttrs, app, windowVars,
                   visible, paintVars, execRet, exitStatus>>

\* main, up to the creation of the application object.
MainEntry ==
    /\ pc = "loaded"
    /\ qt_argv' = <<"crosshair.py">> \o argv
    /\ appAttrs' = {"AA_EnableHighDpiScaling", "AA_UseHighDpiPixmaps"}
    /\ pc' = "main"
    /\ UNCHANGED <<config, sigint, pendingSigint, app, windowVars, visible,
                   paintVars, execRet, exitStatus>>

\* app = QApplication(qt_argv)
CreateApp ==
    /\ pc = "main"
    /\ app' = TRUE
    /\ pc' = "app"
    /\ UNCHANGED <<config, sigint, pendingSigint, qt_argv, appAttrs,
                   windowVars, visible, paintVars, execRet, exitStatus>>

\* window = CrosshairWindow(): the whole constructor.
WindowInit ==
    /\ pc = "app"
    /\ windows' = windows + 1
    /\ winAttrs' = {"WA_TranslucentBackground"}
    /\ winFlags' = {"FramelessWindowHint", "WindowStaysOnTopHint",
                    "X11BypassWindowManagerHint"}
    /\ pen' = [color |-> CROSSHAIR_COLOR, width |-> CROSSHAIR_THICKNESS]
    /\ penAllocs' = penAllocs + 1
    /\ LET w == center_on_primary_screen(NewWidget, primaryScreen,
                                         CROSSHAIR_SIZE, CROSSHAIR_SIZE)
       IN  /\ winPos' = w.pos
           /\ winSize' = w.size
           /\ winMin' = w.min
           /\ winMax' = w.max
    /\ pc' = "constructed"
    /\ UNCHANGED <<config, sigint, pendingSigint, qt_argv, appAttrs, app,
                   visible, paintVars, execRet, exitStatus>>

\* Variant: main goes on to the event loop without showing the window.
ShowForgotten ==
    /\ pc = "constructed"
    /\ pc' = "shown"
    /\ UNCHANGED <<config, sigint, pendingSigint, qt_argv, appAttrs, app,
                   windowVars, visible, paintVars, execRet, exitStatus>>

\* window.show()
Show ==
    /\ pc = "constructed"
    /\ visible' = TRUE
    /\ pc' = "shown"
    /\ UNCHANGED <<config, sigint, pendingSigint, qt_argv, appAttrs, app,
                   windowVars, paintVars, execRet, exitStatus>>

\* app.exec_() is entered.
Exec ==
    /\ pc = "shown"
    /\ pc' = "exec"
    /\ UNCHANGED <<config, sigint, pendingSigint, qt_argv, appAttrs, app,
                   windowVars, visible, paintVars, execRet, exitStatus>>

\* Variant: every repaint creates a pen of its own and keeps it in self._pen.
PaintBeginNewPen ==
    /\ pc = "exec"
    /\ visible
    /\ paints < MaxPaints
    /\ locals' = PaintLocals(winSize[1], winSize[2])
    /\ pen' = [color |-> CROSSHAIR_COLOR, width |-> CROSSHAIR_THICKNESS]
    /\ penAllocs' = penAllocs + 1
    /\ painterPen' = pen'
    /\ paints' = paints + 1
    /\ pc' = "painting"
    /\ UNCHANGED <<config, sigint, pendingSigint, qt_argv, appAttrs, app,
                   windows, winAttrs, winFlags, winPos, winSize, winMin,
                   winMax, visible, frame, prevFrame, execRet, exitStatus>>

\* paintEvent, first half: the event loop dispatches a repaint of the visible
\* window; width, height and their halves are read and the painter gets
\* self._pen.
PaintBegin ==
    /\ pc = "exec"
    /\ visible
    /\ paints < MaxPaints
    /\ locals' = PaintLocals(winSize[1], winSize[2])
    /\ painterPen' = pen
    /\ paints' = paints + 1
    /\ pc' = "painting"
    /\ UNCHANGED <<config, sigint, pendingSigint, qt_argv, appAttrs, app,
                   windowVars, visible, frame, prevFrame, execRet, exitStatus>>

\* paintEvent, second half: the two drawLine calls, and the return to the
\* event loop.
PaintDraw ==
    /\ pc = "painting"
    /\ frame' = DrawLines(locals)
    /\ prevFrame' = frame
    /\ locals' = <<>>
    /\ pc' = "exec"
    /\ UNCHANGED <<config, sigint, pendingSigint, qt_argv, appAttrs, app,
                   windowVars, visible, painterPen, paints, execRet,
                   exitStatus>>

\* The host asks the window to take another size while the event loop runs;
\* the widget keeps the size within its constraints.
ResizeRequest ==
    /\ pc = "exec"
    /\ \E rw \in 1 .. (MaxSize + 1), rh \in 1 .. (MaxSize + 1) :
          winSize' = Constrain(<<rw, rh>>, winMin, winMax)
    /\ UNCHANGED <<config, pc, sigint, pendingSigint, qt_argv, appAttrs, app,
                   windows, winAttrs, winFlags, pen, penAllocs, winPos,
                   winMin, winMax, visible, paintVars, execRet, exitStatus>>

\* The last (only) window is closed: Qt quits the event loop and exec_()
\* returns 0.
CloseWindow ==
    /\ pc = "exec"
    /\ visible' = FALSE
    /\ execRet' = 0
    /\ pc' = "returned"
    /\ UNCHANGED <<config, sigint, pendingSigint, qt_argv, appAttrs, app,
                   windowVars, paintVars, exitStatus>>

\* return app.exec_() ; raise SystemExit(main())
MainReturn ==
    /\ pc = "returned"
    /\ exitStatus' = execRet
    /\ pc' = "exited"
    /\ UNCHANGED <<config, sigint, pendingSigint, qt_argv, appAttrs, app,
                   windowVars, visible, paintVars, execRet>>

\* SIGINT arrives.  With SIG_DFL the OS terminates the process at once.  With
\* Python's own handler the interpreter raises KeyboardInterrupt the next
\* time it runs bytecode: at once while Python code is running (nothing
\* catches it, the process ends), but not while the C++ event loop runs.
Interrupt ==
    /\ pc \notin {"exited", "killed"}
    /\ IF sigint = "SIG_DFL" \/ pc # "exec"
       THEN /\ pc' = "killed"
            /\ visible' = FALSE
            /\ UNCHANGED pendingSigint
       ELSE /\ pendingSigint' = TRUE
            /\ UNCHANGED <<pc, visible>>
    /\ UNCHANGED <<config, sigint, qt_argv, appAttrs, app, windowVars,
                   paintVars, execRet, exitStatus>>

Next ==
    \/ InstallSigintDefault
    \/ MainEntry
    \/ CreateApp
    \/ WindowInit
    \/ Show
    \/ Exec
    \/ PaintBegin
    \/ PaintDraw
    \/ ResizeRequest
    \/ CloseWindow
    \/ MainReturn
    \/ Interrupt

Spec == Init /\ [][Next]_vars


\* ------------------------------------------------------------ properties
Constructed == windows = 1
OnScreen == Constructed /\ primaryScreen # NoScreen
Ox == primaryScreen[1]
Oy == primaryScreen[2]
Dw == primaryScreen[3]
Dh == primaryScreen[4]
S == CROSSHAIR_SIZE
Square == <<CROSSHAIR_SIZE, CROSSHAIR_SIZE>>
Running == pc \in {"exec", "painting"}
Terminated == pc \in {"exited", "killed"}

\* C1: when the primary screen is available, the window position set by
\* _center_on_primary_screen is (Ox + (Dw - S) div 2, Oy + (Dh - S) div 2),
\* div being floor division on both axes; with S = 6 on a 1920x1080 display
\* at (0, 0) that is (957, 537).
C1_PositionIsFloorMidpoint ==
    OnScreen =>
        /\ winPos = <<Ox + ((Dw - S) \div 2), Oy + ((Dh - S) \div 2)>>
        /\ (primaryScreen = FullHD /\ S = 6) => winPos = <<957, 537>>

\* C1 witness: the shipped size on the 1920x1080 display.
C1_Witness ==
    OnScreen /\ primaryScreen = FullHD /\ S = 6 /\ winPos = <<957, 537>>

\* C2: once the window is constructed its width and height are S, on the
\* path with a primary screen and on the fallback path, and they stay S
\* whatever size the host asks for afterwards.
C2_SizeIsFixedSquare ==
    Constructed => winSize = Square /\ winMin = Square /\ winMax = Square

\* C2 witness: the fallback path, in the event loop, after a repaint.
C2_Witness ==
    /\ Constructed /\ primaryScreen = NoScreen /\ pc = "exec" /\ paints > 0
    /\ winSize = Square /\ CROSSHAIR_THICKNESS >= 1

C4_FallbackConstructs ==
    primaryScreen = NoScreen =>
        /\ Constructed =>
              winSize = Square /\ winMin = Square /\ winMax = Square
              /\ winPos = <<>>
        /\ pc = "app" => ENABLED WindowInit
        /\ pc = "constructed" => Constructed /\ ENABLED Show
        /\ pc = "shown" => visible /\ ENABLED Exec
        /\ Running => visible /\ Constructed

\* C4 witness: the fallback window, shown and repainted in the event loop.
C4_Witness ==
    /\ primaryScreen = NoScreen /\ pc = "exec" /\ visible /\ frame # <<>>
    /\ winPos = <<>> /\ winSize = Square

PaintStep ==
    \/ pc = "exec" /\ pc' = "painting"
    \/ pc = "painting" /\ pc' = "exec"

\* C7: a repaint changes neither the window's position, nor its size, nor
\* the pen made at construction; it paints with that pen; and a repaint
\* that follows another one with the size unchanged draws the same segments.
C7_RepaintIsPure ==
    [][PaintStep =>
          /\ UNCHANGED <<winPos, winSize, winMin, winMax, pen, penAllocs>>
          /\ penAllocs = 1
          /\ painterPen' = pen
          /\ pen = [color |-> CROSSHAIR_COLOR, width |-> CROSSHAIR_THICKNESS]
          /\ (frame # <<>> /\ winSize' = winSize /\ pc' = "exec")
                => frame' = frame /\ prevFrame' = frame]_vars

\* C7 witness: two completed repaints that drew the same segments.
C7_Witness ==
    /\ paints = 2 /\ pc = "exec" /\ frame # <<>> /\ prevFrame = frame
    /\ painterPen = pen /\ penAllocs = 1

\* C8: the application object exists before the one window is constructed,
\* the window is constructed (flags, pen, size) before it is shown, it is
\* shown before the event loop runs, no repaint happens before the window is
\* constructed with its pen, and the exit status is the event loop's return
\* value, 0 on normal exit, whatever the arguments.
C8_LifecycleOrder ==
    /\ windows <= 1
    /\ Constructed => app
    /\ app => qt_argv = <<"crosshair.py">> \o argv
    /\ visible =>
          /\ Constructed
          /\ pen # NoPen
          /\ winSize = Square
          /\ winFlags = {"FramelessWindowHint", "WindowStaysOnTopHint",
                         "X11BypassWindowManagerHint"}
          /\ winAttrs = {"WA_TranslucentBackground"}
    /\ Running => visible
    /\ (paints > 0) => Constructed /\ pen # NoPen /\ painterPen = pen
    /\ (execRet # NoValue) => pc \in {"returned", "exited", "killed"}
    /\ (pc = "returned") => execRet = 0
    /\ (pc = "exited") => exitStatus = execRet /\ exitStatus = 0
    /\ (pc # "exited") => exitStatus = NoValue

\* C8 witness: a run given arguments that repainted and exited normally.
C8_Witness ==
    pc = "exited" /\ exitStatus = 0 /\ paints > 0 /\ argv # <<>>

\* C9: SIGINT has its default disposition before the application object,
\* the window or the event loop exist; in every state of a live process an
\* interrupt terminates the process and none is left pending; closing the
\* window makes the event loop return and main exit; and the event loop is
\* left in no other way than by an interrupt or by the window closing.
C9_InterruptTerminates ==
    /\ [](/\ (app \/ windows > 0 \/ visible \/ Running \/ pc = "loaded")
                => sigint = "SIG_DFL"
          /\ pendingSigint = FALSE
          /\ ~Terminated =>
                /\ ENABLED (Interrupt /\ pc' = "killed")
                /\ ~ ENABLED (Interrupt /\ pc' # "killed")
          /\ (pc = "exec") => ENABLED CloseWindow
          /\ (pc = "returned") => ~visible /\ ENABLED MainReturn)
    /\ [][(Running /\ ~Running') =>
             \/ pc' = "killed"
             \/ pc' = "returned" /\ visible /\ ~visible']_vars

\* C9 witness: the process was killed by an interrupt in the middle of a
\* repaint.
C9_Witness ==
    pc = "killed" /\ locals # <<>> /\ sigint = "SIG_DFL" /\ ~pendingSigint

\* C10: when the display is at least as large as the window on both axes,
\* the window lies inside the display rectangle, whatever the display's
\* origin, and the margins before and after it differ by at most one pixel.
C10_WindowInsideDisplay ==
    (OnScreen /\ Dw >= S /\ Dh >= S) =>
        LET left == winPos[1] - Ox
            right == (Ox + Dw) - (winPos[1] + winSize[1])
            top == winPos[2] - Oy
            bottom == (Oy + Dh) - (winPos[2] + winSize[2])
        IN  /\ left >= 0 /\ right >= 0 /\ top >= 0 /\ bottom >= 0
            /\ right - left \in {0, 1}
            /\ bottom - top \in {0, 1}

\* C10 witness: a display at a negative origin, wider than the window by an
\* odd number of pixels.
C10_Witness ==
    /\ OnScreen /\ Ox < 0 /\ Oy < 0 /\ Dw > S /\ Dh >= S
    /\ (Dw - S) % 2 = 1
    /\ winPos[1] >= Ox /\ winPos[1] + S <= Ox + Dw

=============================================================================
